---- MODULE Spec2Model ----
(***************************************************************************)
(* Model of app.py: a Flask front-end that forwards browser actions to a   *)
(* remote MCP service.  One request is handled at a time; every handler    *)
(* is a sequence of steps separated by its Bridge calls (mcp_call), and    *)
(* every Bridge call is the exchange of _mcp_call: open a session,         *)
(* initialize, one operation, json.loads of the first content element.     *)
(***************************************************************************)
EXTENDS Integers, Sequences, FiniteSets, TLC

VARIABLES
    cookie,      \* the browser's "token" cookie (None when absent)
    categories,  \* the module-level category table of app.py
    pc,          \* position of the handler of the request in progress
    request,     \* the request in progress: route, url arguments, cookie, form
    calls,       \* the mcp_call invocations of this request: token, tool, params
    results,     \* what each finished mcp_call of this request returned
    bridge,      \* the _mcp_call exchange in progress
    opened,      \* ids of the sessions opened so far, in order
    response     \* what the handler returned (or the fault that escaped it)

vars == <<cookie, categories, pc, request, calls, results, bridge, opened,
          response>>

----------------------------------------------------------------------------
(* Bounds of the model *)

MaxSessions == 3      \* sessions opened in one run
MaxChallenges == 2    \* length of an event's challenge list
MaxTeams == 2         \* length of the caller's team list

----------------------------------------------------------------------------
(* Python values *)

None == "None"

\* A dict is a record tagged "dict", a list a sequence tagged "list".
PyDict(f) == [type |-> "dict", val |-> f]
PyList(s) == [type |-> "list", val |-> s]

\* The operator `"error" in v'.  On a dict it tests the keys.  On a list it
\* tests the elements, which are dicts in every payload of the model, never
\* the string "error".  On a ListToolsResult it iterates (field, value)
\* pairs, none of which equals a string.
Contains(key, v) ==
    IF v.type = "dict" THEN key \in DOMAIN v.val ELSE FALSE

\* dict.get(key, default) on a plain record
get(d, key, default) == IF key \in DOMAIN d THEN d[key] ELSE default

Tokens == {"tokA"}
Flags == {"HTB{flag}"}
EventIds == {1, 2}
ChalIds == {1, 2}
TeamIds == {7, 9}
CatIds == {2, 999}

----------------------------------------------------------------------------
(* The remote service: what it may answer to each tool *)

\* JSON documents as the remote encodes them
JObject(f) == [type |-> "object", val |-> f]
JArray(s) == [type |-> "array", val |-> s]

SeqsUpTo(S, n) == UNION {[1..k -> S] : k \in 0..n}

Challenge ==
    [id : ChalIds, challenge_category_id : CatIds,
     difficulty : {"easy", "hard", "insane"}]

Team == [id : TeamIds]

RemoteError == [error |-> "forbidden", error_description |-> "access denied"]

ToolPayloads(tool) ==
    CASE tool = "list_ctf_events" ->
           {JArray(<<>>), JArray(<<[id |-> 1, name |-> "ctf"]>>), JObject(RemoteError)}
      [] tool = "retrieve_my_teams" ->
           {JArray(ts) : ts \in SeqsUpTo(Team, MaxTeams)} \cup {JObject(RemoteError)}
      [] tool = "retrieve_ctf" ->
           {JObject([name |-> "ctf", challenges |-> cs]) :
                cs \in SeqsUpTo(Challenge, MaxChallenges)}
           \cup {JObject([name |-> "ctf"]), JObject(RemoteError)}
      [] tool = "retrieve_ctf_scores" ->
           {JObject([scores |-> <<>>]), JObject(RemoteError)}
      [] tool = "get_download_link" ->
           {JObject([url |-> "https://files/1"]), JObject(RemoteError)}
      [] OTHER ->
           {JObject([message |-> "ok"]), JObject(RemoteError)}

\* result.content of a call_tool reply: no element, a non-text element, a
\* text element that is not JSON, or a text element holding a JSON document
ToolContents(tool) ==
    {<<>>, <<[type |-> "image"]>>, <<[type |-> "text", text |-> [garbage |-> "<html>"]]>>}
    \cup {<<[type |-> "text", text |-> [json |-> p]]>> : p \in ToolPayloads(tool)}

ListToolsResult == [type |-> "ListToolsResult",
                    tools |-> <<[name |-> "list_ctf_events"], [name |-> "retrieve_ctf"]>>]

\* Faults are exceptions: a class and a message
Fault(cls, msg) == [cls |-> cls, msg |-> msg]
NoFault == Fault("", "")

ConnectFault == Fault("ConnectError", "All connection attempts failed")
InitializeFault == Fault("McpError", "initialize rejected")
OperationFault == Fault("McpError", "request failed")

\* The classes above and the ones json_loads raises all derive from Exception
ExceptionClasses ==
    {"ConnectError", "McpError", "IndexError", "AttributeError", "JSONDecodeError"}

----------------------------------------------------------------------------
(* Remote Tool Bridge: mcp_call and _mcp_call *)

BridgeIdle ==
    [phase |-> "idle", token |-> None, tool |-> "", params |-> <<>>,
     session |-> 0, trace |-> <<>>, reply |-> <<>>, value |-> PyDict(<<>>),
     fault |-> NoFault]

\* `params or {}': the default None and the empty dict are both falsy and
\* both become {} (the empty record stands for either)
params_or_empty(params) == IF DOMAIN params = {} THEN <<>> ELSE params

\* mcp_call entered: asyncio.run(_mcp_call(token, tool, params or {}))
mcp_call(token, tool, params) ==
    [BridgeIdle EXCEPT !.phase = "entered", !.token = token, !.tool = tool,
                       !.params = params_or_empty(params)]

\* The session a call works on: streamablehttp_client and ClientSession are
\* constructed inside the call, so the session is one no earlier call had.
PooledSession(seen) == IF seen = <<>> THEN 1 ELSE seen[1]
NewSession(seen) == Len(seen) + 1

\* JSON decoding: an object becomes a dict, an array a list
json_decode(doc) ==
    IF doc.type = "object" THEN PyDict(doc.val) ELSE PyList(doc.val)

Returns(v) == [raised |-> FALSE, value |-> v, fault |-> NoFault]
Raises(f) == [raised |-> TRUE, value |-> PyDict(<<>>), fault |-> f]

\* json.loads(text)
json_loads(text) ==
    IF "json" \in DOMAIN text
    THEN Returns(json_decode(text.json))
    ELSE Raises(Fault("JSONDecodeError", "Expecting value: line 1 column 1 (char 0)"))

\* json.loads(result.content[0].text)
parse_first_content(content) ==
    IF Len(content) = 0
    THEN Raises(Fault("IndexError", "list index out of range"))
    ELSE IF content[1].type # "text"
    THEN Raises(Fault("AttributeError", "'ImageContent' object has no attribute 'text'"))
    ELSE json_loads(content[1].text)

\* `except Exception as e': does the handler clause catch e
NarrowExcept(e) == e.cls = "JSONDecodeError"
except_Exception(e) == e.cls \in ExceptionClasses

\* {"error": "exception", "error_description": str(e)}
exception_record(e) == PyDict([error |-> "exception", error_description |-> e.msg])

Fail(f) == [bridge EXCEPT !.phase = "faulted", !.fault = f]

\* async with streamablehttp_client(...) / async with ClientSession(...)
streamablehttp_client ==
    /\ bridge.phase = "entered"
    /\ \/ LET s == NewSession(opened) IN
            /\ bridge' = [bridge EXCEPT
                  !.phase = "connected", !.session = s,
                  !.trace = Append(@, [op |-> "connect", session |-> s,
                                       bearer |-> bridge.token])]
            /\ opened' = Append(opened, s)
       \/ /\ bridge' = Fail(ConnectFault)
          /\ UNCHANGED opened
    /\ UNCHANGED <<cookie, categories, pc, request, calls, results, response>>

\* await session.initialize()
session_initialize ==
    /\ bridge.phase = "connected"
    /\ \/ bridge' = [bridge EXCEPT
              !.phase = "initialized",
              !.trace = Append(@, [op |-> "initialize", session |-> bridge.session])]
       \/ bridge' = Fail(InitializeFault)
    /\ UNCHANGED <<cookie, categories, pc, request, calls, results, opened, response>>

\* if tool == "list_tools": return await session.list_tools()
session_list_tools ==
    /\ bridge.phase = "initialized"
    /\ bridge.tool = "list_tools"
    /\ LET sent == Append(bridge.trace, [op |-> "list_tools", session |-> bridge.session])
       IN \/ bridge' = [bridge EXCEPT !.phase = "completed", !.trace = sent,
                                      !.value = ListToolsResult]
          \/ bridge' = [Fail(OperationFault) EXCEPT !.trace = sent]
    /\ UNCHANGED <<cookie, categories, pc, request, calls, results, opened, response>>

\* result = await session.call_tool(tool, params)
session_call_tool ==
    /\ bridge.phase = "initialized"
    /\ bridge.tool # "list_tools"
    /\ LET sent == Append(bridge.trace,
                          [op |-> "call_tool", session |-> bridge.session,
                           name |-> bridge.tool, arguments |-> bridge.params])
       IN \/ \E content \in ToolContents(bridge.tool) :
                bridge' = [bridge EXCEPT !.phase = "replied", !.trace = sent,
                                         !.reply = content]
          \/ bridge' = [Fail(OperationFault) EXCEPT !.trace = sent]
    /\ UNCHANGED <<cookie, categories, pc, request, calls, results, opened, response>>

\* return json.loads(result.content[0].text)
return_json_loads ==
    /\ bridge.phase = "replied"
    /\ LET parsed == parse_first_content(bridge.reply)
           done == Append(bridge.trace, [op |-> "json.loads", session |-> bridge.session])
       IN bridge' = IF parsed.raised
                    THEN [Fail(parsed.fault) EXCEPT !.trace = done]
                    ELSE [bridge EXCEPT !.phase = "completed", !.trace = done,
                                        !.value = parsed.value]
    /\ UNCHANGED <<cookie, categories, pc, request, calls, results, opened, response>>

\* mcp_call returns what asyncio.run returned
mcp_call_return ==
    /\ bridge.phase = "completed"
    /\ bridge' = [bridge EXCEPT !.phase = "returned"]
    /\ results' = Append(results, bridge.value)
    /\ UNCHANGED <<cookie, categories, pc, request, calls, opened, response>>

\* except Exception as e: return {"error": "exception", ...}; a fault the
\* clause does not catch leaves mcp_call and the handler that called it
mcp_call_except ==
    /\ bridge.phase = "faulted"
    /\ IF except_Exception(bridge.fault)
       THEN /\ bridge' = [bridge EXCEPT !.phase = "returned",
                                        !.value = exception_record(bridge.fault)]
            /\ results' = Append(results, exception_record(bridge.fault))
            /\ UNCHANGED <<pc, response>>
       ELSE /\ bridge' = [bridge EXCEPT !.phase = "propagated"]
            /\ response' = [kind |-> "fault", exc |-> bridge.fault.cls]
            /\ pc' = "done"
            /\ UNCHANGED results
    /\ UNCHANGED <<cookie, categories, request, calls, opened>>

----------------------------------------------------------------------------
(* Category Lookup *)

CategoryTable ==
    (2 :> "Web") @@ (3 :> "Pwn") @@ (4 :> "Crypto") @@ (5 :> "Reverse") @@
    (7 :> "Forensics") @@ (8 :> "Misc") @@ (11 :> "Coding") @@
    (14 :> "Blockchain") @@ (15 :> "Hardware") @@ (16 :> "Warmup") @@
    (21 :> "ICS")

UnknownAsZero(categorie_id) ==
    IF categorie_id \in DOMAIN categories THEN categories[categorie_id] ELSE 0
categorie_name(categorie_id) ==
    IF categorie_id \in DOMAIN categories THEN categories[categorie_id]
    ELSE categorie_id

----------------------------------------------------------------------------
(* Insertion-ordered dicts (Python dict, defaultdict): sequences of entries *)

od_has(d, k) == \E i \in 1..Len(d) : d[i].key = k
od_get(d, k) == d[CHOOSE i \in 1..Len(d) : d[i].key = k].val
od_set(d, k, v) ==
    IF od_has(d, k)
    THEN [i \in 1..Len(d) |-> IF d[i].key = k THEN [key |-> k, val |-> v] ELSE d[i]]
    ELSE Append(d, [key |-> k, val |-> v])
\* defaultdict read: the stored value, or the factory's value
dd_get(d, k, default) == IF od_has(d, k) THEN od_get(d, k) ELSE default

----------------------------------------------------------------------------
(* event: grouping of the challenge list *)

difficulty_order == <<"sanity check", "very easy", "easy", "medium", "hard">>

\* for c in challenges[:n]:
\*     categories[c["challenge_category_id"]][c["difficulty"]].append(c)
RECURSIVE OverwriteBucket(_, _)
OverwriteBucket(challenges, n) ==
    IF n = 0 THEN <<>>
    ELSE LET acc == OverwriteBucket(challenges, n - 1)
             c == challenges[n]
             cat == c.challenge_category_id
             inner == dd_get(acc, cat, <<>>)
         IN od_set(acc, cat, od_set(inner, c.difficulty, <<c>>))
RECURSIVE event_categories(_, _)
event_categories(challenges, n) ==
    IF n = 0 THEN <<>>
    ELSE LET acc == event_categories(challenges, n - 1)
             c == challenges[n]
             cat == c.challenge_category_id
             inner == dd_get(acc, cat, <<>>)
             bucket == dd_get(inner, c.difficulty, <<>>)
         IN od_set(acc, cat, od_set(inner, c.difficulty, Append(bucket, c)))

\* {diff: categories[cat_id][diff] for diff in difficulty_order[i:]
\*        if categories[cat_id][diff]}
RECURSIVE KeepEmptyDifficulties(_, _)
KeepEmptyDifficulties(inner, i) ==
    IF i > Len(difficulty_order) THEN <<>>
    ELSE <<[key |-> difficulty_order[i],
            val |-> dd_get(inner, difficulty_order[i], <<>>)]>>
         \o KeepEmptyDifficulties(inner, i + 1)
RECURSIVE event_difficulties(_, _)
event_difficulties(inner, i) ==
    IF i > Len(difficulty_order) THEN <<>>
    ELSE LET diff == difficulty_order[i]
             bucket == dd_get(inner, diff, <<>>)
         IN (IF Len(bucket) > 0 THEN <<[key |-> diff, val |-> bucket]>> ELSE <<>>)
            \o event_difficulties(inner, i + 1)

\* grouped = {cat_id: {"name": ..., "difficulties": {...}} for cat_id in categories}
event_grouped(challenges) ==
    LET cats == event_categories(challenges, Len(challenges))
    IN [i \in 1..Len(cats) |->
          [key |-> cats[i].key,
           val |-> [name |-> categorie_name(cats[i].key),
                    difficulties |-> event_difficulties(cats[i].val, 1)]]]

----------------------------------------------------------------------------
(* challenge: the scan for chal_id *)

\* for chall in challs[i:]: if chall.get("id") == chal_id: return chall
RECURSIVE LastMatch(_, _, _)
LastMatch(challs, chal_id, i) ==
    IF i > Len(challs) THEN <<>>
    ELSE LET rest == LastMatch(challs, chal_id, i + 1)
         IN IF DOMAIN rest # {} THEN rest
            ELSE IF get(challs[i], "id", None) = chal_id THEN challs[i] ELSE <<>>
RECURSIVE challenge_data(_, _, _)
challenge_data(challs, chal_id, i) ==
    IF i > Len(challs) THEN <<>>
    ELSE IF get(challs[i], "id", None) = chal_id THEN challs[i]
    ELSE challenge_data(challs, chal_id, i + 1)

----------------------------------------------------------------------------
(* Flask: requests and responses *)

NoRequest ==
    [method |-> "", route |-> "", event_id |-> 0, chal_id |-> 0,
     token |-> None, form_token |-> None, flag |-> None]
NoResponse == [kind |-> "none"]

redirect(location) == [kind |-> "redirect", location |-> location, set_cookie |-> None]
render_template(template, context) ==
    [kind |-> "render", template |-> template, context |-> context]
jsonify(body) == [kind |-> "json", body |-> body]
\* a fault that leaves the handler: the framework's error page
Unhandled(exc) == [kind |-> "fault", exc |-> exc]

\* `not token'
Truthy(token) == token # None /\ token # ""

Req(method, route, event_id, chal_id, form_token, flag) ==
    [method |-> method, route |-> route, event_id |-> event_id, chal_id |-> chal_id,
     token |-> cookie, form_token |-> form_token, flag |-> flag]

\* The requests a browser holding `cookie' can send (request.cookies.get("token")
\* is the cookie, or None)
Requests ==
    {Req("GET", r, 0, 0, None, None) : r \in {"/", "/tools", "/login"}}
    \cup {Req("POST", "/login", 0, 0, t, None) : t \in {None, ""} \cup Tokens}
    \cup {Req("GET", r, e, 0, None, None) :
            r \in {"/join", "/event", "/scoreboard"}, e \in EventIds}
    \cup {Req("GET", "/challenge", e, c, None, None) : e \in EventIds, c \in ChalIds}
    \cup {Req("GET", r, 0, c, None, None) :
            r \in {"/start_container", "/stop_container"}, c \in ChalIds}
    \cup {Req("POST", "/submit_flag", 0, c, None, f) :
            c \in ChalIds, f \in {None} \cup Flags}

At(method, route, label) ==
    /\ pc = label
    /\ request.method = method
    /\ request.route = route

\* the handler calls mcp_call(token, tool, params) and waits at `label'
Invoke(token, tool, params, label) ==
    /\ bridge' = mcp_call(token, tool, params)
    /\ calls' = Append(calls, [token |-> token, tool |-> tool,
                               params |-> params_or_empty(params)])
    /\ pc' = label
    /\ UNCHANGED <<cookie, categories, request, results, opened, response>>

\* the handler returns `resp'
Finish(resp) ==
    /\ response' = resp
    /\ pc' = "done"
    /\ bridge' = BridgeIdle
    /\ UNCHANGED <<cookie, categories, request, calls, results, opened>>

Returned == bridge.phase = "returned"

\* join and challenge make two Bridge calls, no handler makes more
MaxCallsPerRequest == 2

\* A request arrives (while the run has sessions left for its Bridge calls)
Request ==
    /\ pc = "idle"
    /\ Len(opened) + MaxCallsPerRequest <= MaxSessions
    /\ \E r \in Requests : request' = r
    /\ pc' = "handler"
    /\ UNCHANGED <<cookie, categories, calls, results, bridge, opened, response>>

\* The response is sent; the browser stores a cookie it sets
Deliver ==
    /\ pc = "done"
    /\ cookie' = IF response.kind = "redirect" /\ response.set_cookie # None
                 THEN response.set_cookie ELSE cookie
    /\ pc' = "idle"
    /\ request' = NoRequest
    /\ calls' = <<>>
    /\ results' = <<>>
    /\ bridge' = BridgeIdle
    /\ response' = NoResponse
    /\ UNCHANGED <<categories, opened>>

----------------------------------------------------------------------------
(* View Assembler: the route handlers *)

\* `if "error" in x'
OnlyExceptionRecords(x) == Contains("error", x) /\ x.val.error = "exception"
error_in(x) == Contains("error", x)

error_view(record) == render_template("error.html", [error |-> record])

\* teams[0] of join
last_team(teams) == teams[Len(teams)]
first_team(teams) == teams[1]

\* @app.route("/tools")
list_tools ==
    /\ At("GET", "/tools", "handler")
    /\ IF ~Truthy(request.token)
       THEN Finish(redirect("/login"))
       ELSE Invoke(request.token, "list_tools", <<>>, "list_tools")

list_tools_render ==
    /\ At("GET", "/tools", "list_tools")
    /\ Returned
    /\ LET tools == results[1]
       IN IF error_in(tools)
          THEN Finish(error_view(tools))
          ELSE Finish(jsonify([i \in 1..Len(tools.tools) |-> tools.tools[i].name]))

\* @app.route("/")
home ==
    /\ At("GET", "/", "handler")
    /\ IF ~Truthy(request.token)
       THEN Finish(redirect("/login"))
       ELSE Invoke(request.token, "list_ctf_events", <<>>, "home")

home_render ==
    /\ At("GET", "/", "home")
    /\ Returned
    /\ LET events == results[1]
       IN IF error_in(events)
          THEN Finish(error_view(events))
          ELSE Finish(render_template("index.html", [events |-> events]))

\* @app.route("/login", methods=["GET"])
home_login ==
    /\ At("GET", "/login", "handler")
    /\ Finish(render_template("login.html", <<>>))

\* @app.route("/login", methods=["POST"])
login ==
    /\ At("POST", "/login", "handler")
    /\ LET token == request.form_token
       IN IF Truthy(token)
          THEN Finish([redirect("/") EXCEPT !.set_cookie = token])
          ELSE Finish(redirect("/login"))

\* @app.route("/join/<int:event_id>")
join ==
    /\ At("GET", "/join", "handler")
    /\ Invoke(request.token, "retrieve_my_teams", <<>>, "join_teams")

\* the arguments of the second call are evaluated first: teams[0] raises
\* KeyError on a dict and IndexError on an empty list
join_teams ==
    /\ At("GET", "/join", "join_teams")
    /\ Returned
    /\ LET teams == results[1]
       IN IF teams.type = "dict"
          THEN Finish(Unhandled("KeyError"))
          ELSE IF Len(teams.val) = 0
          THEN Finish(Unhandled("IndexError"))
          ELSE Invoke(request.token, "join_ctf_event",
                      [ctf_id |-> request.event_id,
                       team_id |-> get(first_team(teams.val), "id", None),
                       consent |-> TRUE,
                       ctf_password |-> None],
                      "join_result")

join_result ==
    /\ At("GET", "/join", "join_result")
    /\ Returned
    /\ LET joined == results[2]
       IN IF error_in(joined)
          THEN Finish(error_view(joined))
          ELSE Finish(redirect("/"))

\* @app.route("/event/<int:event_id>")
event ==
    /\ At("GET", "/event", "handler")
    /\ Invoke(request.token, "retrieve_ctf", [ctf_id |-> request.event_id], "event")

event_render ==
    /\ At("GET", "/event", "event")
    /\ Returned
    /\ LET details == results[1]
       IN IF error_in(details)
          THEN Finish(error_view(details))
          ELSE LET challenges == get(details.val, "challenges", <<>>)
               IN Finish(render_template("event.html",
                     [event_name |-> get(details.val, "name", None),
                      grouped |-> event_grouped(challenges),
                      difficulty_order |-> difficulty_order,
                      event_id |-> request.event_id]))

\* @app.route("/scoreboard/<int:event_id>")
scoreboard ==
    /\ At("GET", "/scoreboard", "handler")
    /\ Invoke(request.token, "retrieve_ctf_scores", [ctf_id |-> request.event_id],
              "scoreboard")

scoreboard_render ==
    /\ At("GET", "/scoreboard", "scoreboard")
    /\ Returned
    /\ LET details == results[1]
       IN IF error_in(details)
          THEN Finish(error_view(details))
          ELSE Finish(render_template("scoreboard.html", [details |-> details]))

\* @app.route("/challenge/<int:event_id>/<int:chal_id>")
challenge ==
    /\ At("GET", "/challenge", "handler")
    /\ Invoke(request.token, "retrieve_ctf", [ctf_id |-> request.event_id],
              "challenge_details")

challenge_details ==
    /\ At("GET", "/challenge", "challenge_details")
    /\ Returned
    /\ LET details == results[1]
       IN IF error_in(details)
          THEN Finish(error_view(details))
          ELSE Invoke(request.token, "get_download_link",
                      [challenge_id |-> request.chal_id], "challenge_render")

challenge_render ==
    /\ At("GET", "/challenge", "challenge_render")
    /\ Returned
    /\ LET details == results[1]
           download_link == results[2]
           chal == challenge_data(get(details.val, "challenges", <<>>),
                                  request.chal_id, 1)
       IN Finish(render_template("challenge.html",
             [chal_id |-> request.chal_id,
              event_id |-> request.event_id,
              chal |-> chal,
              download_link |-> download_link]))

\* @app.route("/start_container/<int:chal_id>")
start_container ==
    /\ At("GET", "/start_container", "handler")
    /\ Invoke(request.token, "start_container", [challenge_id |-> request.chal_id],
              "start_container")

start_container_render ==
    /\ At("GET", "/start_container", "start_container")
    /\ Returned
    /\ Finish(render_template("generic.html", [result |-> results[1]]))

\* @app.route("/stop_container/<int:chal_id>")
stop_container ==
    /\ At("GET", "/stop_container", "handler")
    /\ Invoke(request.token, "stop_container", [challenge_id |-> request.chal_id],
              "stop_container")

stop_container_render ==
    /\ At("GET", "/stop_container", "stop_container")
    /\ Returned
    /\ Finish(render_template("generic.html", [result |-> results[1]]))

\* @app.route("/submit_flag/<int:chal_id>", methods=["POST"])
submit_flag ==
    /\ At("POST", "/submit_flag", "handler")
    /\ Invoke(request.token, "submit_flag",
              [challenge_id |-> request.chal_id, flag |-> request.flag],
              "submit_flag")

submit_flag_render ==
    /\ At("POST", "/submit_flag", "submit_flag")
    /\ Returned
    /\ Finish(render_template("generic.html", [result |-> results[1]]))

----------------------------------------------------------------------------
(* Specification *)

Init ==
    /\ cookie \in {None} \cup Tokens
    /\ categories = CategoryTable
    /\ pc = "idle"
    /\ request = NoRequest
    /\ calls = <<>>
    /\ results = <<>>
    /\ bridge = BridgeIdle
    /\ opened = <<>>
    /\ response = NoResponse

Next ==
    \/ Request
    \/ Deliver
    \/ streamablehttp_client
    \/ session_initialize
    \/ session_list_tools
    \/ session_call_tool
    \/ return_json_loads
    \/ mcp_call_return
    \/ mcp_call_except
    \/ list_tools
    \/ list_tools_render
    \/ home
    \/ home_render
    \/ home_login
    \/ login
    \/ join
    \/ join_teams
    \/ join_result
    \/ event
    \/ event_render
    \/ scoreboard
    \/ scoreboard_render
    \/ challenge
    \/ challenge_details
    \/ challenge_render
    \/ start_container
    \/ start_container_render
    \/ stop_container
    \/ stop_container_render
    \/ submit_flag
    \/ submit_flag_render

Spec == Init /\ [][Next]_vars

----------------------------------------------------------------------------
(* Properties *)

Done(route) == pc = "done" /\ request.route = route
LastResult == results[Len(results)]
ErrorRecord(msg) == PyDict([error |-> "exception", error_description |-> msg])

\* C1: when a step of a Bridge call faults (connection, handshake, operation,
\* reading or parsing the first content element), mcp_call returns the record
\* {error: "exception", error_description: <the fault's message>}, and the
\* fault never leaves mcp_call.
C1_FaultBecomesErrorRecord ==
    /\ bridge.phase # "propagated"
    /\ (bridge.fault # NoFault) => bridge.phase \in {"faulted", "returned"}
    /\ (bridge.phase = "returned" /\ bridge.fault # NoFault) =>
          /\ Len(results) = Len(calls)
          /\ LastResult = ErrorRecord(bridge.fault.msg)
          /\ response.kind # "fault"

C1_Witness ==
    /\ bridge.phase = "returned"
    /\ bridge.fault.cls = "JSONDecodeError"
    /\ LastResult = ErrorRecord("Expecting value: line 1 column 1 (char 0)")

TokenRoutes ==
    {"/", "/tools", "/join", "/event", "/scoreboard", "/challenge",
     "/start_container", "/stop_container", "/submit_flag"}

\* C2: a route that needs a token, requested without a token cookie, makes no
\* Bridge call and answers with a redirect to /login.
C2_NoTokenRedirectsWithoutCall ==
    (request.route \in TokenRoutes /\ request.token = None) =>
        /\ calls = <<>>
        /\ pc = "done" => response = redirect("/login")

\* C3: the join handler always ends by rendering the error view with the
\* error record or by redirecting to home; no fault leaves the handler.
C3_JoinEndsInErrorViewOrRedirect ==
    Done("/join") =>
        \/ response = redirect("/")
        \/ response = error_view(LastResult)

----------------------------------------------------------------------------
\* The event view of a finished /event request, and the list it was built from
EventView == Done("/event") /\ response.kind = "render" /\ response.template = "event.html"
EventChallenges == get(results[1].val, "challenges", <<>>)
Grouped == response.context.grouped
InCategory(cat_id) ==
    SelectSeq(EventChallenges, LAMBDA c : c.challenge_category_id = cat_id)
InBucket(cat_id, diff) ==
    SelectSeq(EventChallenges,
              LAMBDA c : c.challenge_category_id = cat_id /\ c.difficulty = diff)
Range(f) == {f[i] : i \in DOMAIN f}
BucketKeys(entry) ==
    [j \in 1..Len(entry.val.difficulties) |-> entry.val.difficulties[j].key]

\* C4: the grouped structure has exactly one top-level key per distinct
\* challenge_category_id, every difficulty bucket is non-empty, and the buckets
\* of a category are the fixed order filtered to the difficulties present in it.
C4_GroupedShape ==
    EventView =>
        /\ {Grouped[i].key : i \in 1..Len(Grouped)}
              = {c.challenge_category_id : c \in Range(EventChallenges)}
        /\ \A i, j \in 1..Len(Grouped) : Grouped[i].key = Grouped[j].key => i = j
        /\ \A i \in 1..Len(Grouped) :
              /\ \A j \in 1..Len(Grouped[i].val.difficulties) :
                    Len(Grouped[i].val.difficulties[j].val) > 0
              /\ BucketKeys(Grouped[i])
                    = SelectSeq(difficulty_order,
                                LAMBDA d : \E c \in Range(InCategory(Grouped[i].key)) :
                                              c.difficulty = d)

C4_Witness ==
    /\ EventView
    /\ Len(EventChallenges) = 2
    /\ EventChallenges[1].challenge_category_id = EventChallenges[2].challenge_category_id
    /\ EventChallenges[1].difficulty = "hard"
    /\ EventChallenges[2].difficulty = "easy"
    /\ Len(Grouped) = 1
    /\ BucketKeys(Grouped[1]) = <<"easy", "hard">>

\* C5: with a non-empty team list the join handler calls retrieve_my_teams,
\* then join_ctf_event exactly once with {ctf_id: the route's event id,
\* team_id: the first team's id, consent: true, ctf_password: null}; it
\* redirects to / when the join result has no error key and renders the error
\* view otherwise.
C5_JoinUsesFirstTeam ==
    (Done("/join") /\ results[1].type = "list" /\ Len(results[1].val) > 0) =>
        /\ Len(calls) = 2
        /\ calls[1] = [token |-> request.token, tool |-> "retrieve_my_teams",
                       params |-> <<>>]
        /\ calls[2] = [token |-> request.token, tool |-> "join_ctf_event",
                       params |-> [ctf_id |-> request.event_id,
                                   team_id |-> results[1].val[1].id,
                                   consent |-> TRUE,
                                   ctf_password |-> None]]
        /\ Len(results) = 2
        /\ IF Contains("error", results[2])
           THEN response = error_view(results[2])
           ELSE response = redirect("/")

C5_Witness ==
    /\ Done("/join")
    /\ results[1] = PyList(<<[id |-> 7], [id |-> 9]>>)
    /\ request.event_id = 2
    /\ calls[2].params.team_id = 7
    /\ response = redirect("/")

\* C6: the challenge view gets the first entry of the event's challenge list
\* whose id is chal_id, or an empty record when no entry matches or the event
\* has no challenge list; the view is rendered in either case.
C6_FirstMatchOrEmpty ==
    (Done("/challenge") /\ ~Contains("error", results[1])) =>
        LET challs == get(results[1].val, "challenges", <<>>)
            hits == {i \in 1..Len(challs) : challs[i].id = request.chal_id}
        IN /\ response.kind = "render"
           /\ response.template = "challenge.html"
           /\ IF hits = {}
              THEN DOMAIN response.context.chal = {}
              ELSE /\ DOMAIN response.context.chal # {}
                   /\ response.context.chal
                        = challs[CHOOSE i \in hits : \A k \in hits : i <= k]

C6_Witness ==
    /\ Done("/challenge")
    /\ ~Contains("error", results[1])
    /\ LET challs == get(results[1].val, "challenges", <<>>)
       IN /\ Len(challs) = 2
          /\ challs[1].id = request.chal_id
          /\ challs[2].id = request.chal_id
          /\ challs[1] # challs[2]
          /\ response.context.chal = challs[1]

TraceOps == [i \in 1..Len(bridge.trace) |-> bridge.trace[i].op]
IsPrefix(p, q) == Len(p) <= Len(q) /\ \A i \in 1..Len(p) : p[i] = q[i]

\* C7: every Bridge call opens a session no earlier call used, with the
\* caller's token as bearer, initializes it before any operation, and issues
\* one operation: list_tools for the name "list_tools", whose listing is
\* returned as it is with no JSON parsing and no tool invocation; otherwise
\* call_tool with the given name and parameters, whose first content element
\* is returned JSON-parsed.
C7_FreshSessionHandshakeOneOperation ==
    /\ \A i, j \in 1..Len(opened) : opened[i] = opened[j] => i = j
    /\ bridge.phase \notin {"idle", "entered"} =>
          /\ IsPrefix(TraceOps,
                      IF bridge.tool = "list_tools"
                      THEN <<"connect", "initialize", "list_tools">>
                      ELSE <<"connect", "initialize", "call_tool", "json.loads">>)
          /\ \A i \in 1..Len(bridge.trace) : bridge.trace[i].session = bridge.session
          /\ Len(bridge.trace) > 0 =>
                /\ bridge.trace[1].bearer = calls[Len(calls)].token
                /\ bridge.session = opened[Len(opened)]
          /\ Len(bridge.trace) > 2 /\ bridge.tool # "list_tools" =>
                /\ bridge.trace[3].name = calls[Len(calls)].tool
                /\ bridge.trace[3].arguments = calls[Len(calls)].params
    /\ (bridge.phase = "returned" /\ bridge.fault = NoFault) =>
          IF bridge.tool = "list_tools"
          THEN /\ TraceOps = <<"connect", "initialize", "list_tools">>
               /\ LastResult = ListToolsResult
          ELSE /\ TraceOps = <<"connect", "initialize", "call_tool", "json.loads">>
               /\ LastResult.val = bridge.reply[1].text.json.val
               /\ LastResult.type
                    = IF bridge.reply[1].text.json.type = "object" THEN "dict" ELSE "list"

C7_Witness ==
    /\ Len(opened) = 2
    /\ bridge.phase = "returned"
    /\ bridge.fault = NoFault
    /\ bridge.tool = "list_tools"
    /\ bridge.session = 2

ReadRoutes == {"/", "/tools", "/event", "/scoreboard"}
SuccessView(route) ==
    CASE route = "/" -> response.kind = "render" /\ response.template = "index.html"
      [] route = "/tools" -> response.kind = "json"
      [] route = "/event" -> response.kind = "render" /\ response.template = "event.html"
      [] route = "/scoreboard" ->
            response.kind = "render" /\ response.template = "scoreboard.html"

\* C8: each of /, /tools, /event, /scoreboard, requested with a token, makes
\* exactly one Bridge call, renders the error view with the returned record
\* if and only if the result has an error key, and its success view otherwise.
C8_OneCallThenErrorOrSuccessView ==
    (request.route \in ReadRoutes /\ Truthy(request.token)) =>
        /\ Len(calls) <= 1
        /\ pc = "done" =>
              /\ Len(calls) = 1
              /\ Len(results) = 1
              /\ IF Contains("error", results[1])
                 THEN response = error_view(results[1])
                 ELSE SuccessView(request.route)

C8_Witness ==
    /\ Done("/event")
    /\ Truthy(request.token)
    /\ results = <<PyDict(RemoteError)>>
    /\ response = error_view(PyDict(RemoteError))

\* C9: the category lookup returns the table's name for an id that is a key
\* (2 gives "Web") and the id itself for any other id (999 gives 999), also in
\* the names of the event view; no request changes the table.
C9_CategoryLookup ==
    /\ categories = CategoryTable
    /\ categorie_name(2) = "Web"
    /\ categorie_name(999) = 999
    /\ EventView =>
          \A i \in 1..Len(Grouped) :
              Grouped[i].val.name
                 = IF Grouped[i].key \in DOMAIN CategoryTable
                   THEN CategoryTable[Grouped[i].key]
                   ELSE Grouped[i].key

C9_Witness ==
    /\ EventView
    /\ Len(Grouped) = 2
    /\ Grouped[1].key = 999
    /\ Grouped[1].val.name = 999
    /\ Grouped[2].key = 2
    /\ Grouped[2].val.name = "Web"

BucketOf(entry, diff) == dd_get(entry.val.difficulties, diff, <<>>)

\* C10: a challenge whose difficulty is one of the five labels is in the
\* bucket of its category and difficulty exactly once, buckets keep the order
\* of the remote list; a challenge with any other difficulty is in no bucket,
\* and a category with only such challenges is a key with no buckets.
C10_BucketsPartitionTheList ==
    EventView =>
        /\ \A c \in Range(EventChallenges) :
              \E i \in 1..Len(Grouped) : Grouped[i].key = c.challenge_category_id
        /\ \A i \in 1..Len(Grouped) :
              /\ Range(BucketKeys(Grouped[i])) \subseteq Range(difficulty_order)
              /\ \A d \in Range(difficulty_order) :
                    BucketOf(Grouped[i], d) = InBucket(Grouped[i].key, d)
              /\ (\A c \in Range(InCategory(Grouped[i].key)) :
                     c.difficulty \notin Range(difficulty_order))
                    => Grouped[i].val.difficulties = <<>>

C10_Witness ==
    /\ EventView
    /\ Len(EventChallenges) = 2
    /\ EventChallenges[1].id = 2
    /\ EventChallenges[2].id = 1
    /\ Len(Grouped) = 1
    /\ BucketOf(Grouped[1], "easy") = EventChallenges

====
